---- MODULE Spec2Model ----
(***************************************************************************)
(* SegmentService (services/segment-service.ts): segment CRUD with its     *)
(* validation, audit events, and the association of segments with         *)
(* strategies (addToStrategy, removeFromStrategy, updateStrategySegments,  *)
(* cloneStrategySegments).                                                 *)
(*                                                                         *)
(* Every `await` of the service is a scheduling point: a call is a record  *)
(* with a pc, and one action is one continuation of the call together with *)
(* the store operation it awaited.  The members of a Promise.all batch are *)
(* tasks of the call that step independently of each other.                *)
(***************************************************************************)
EXTENDS Integers, Sequences, FiniteSets, TLC

\* ------------------------------------------------------------------ bounds
MaxSegments == 3            \* ids the store hands out: 1..MaxSegments
MaxLog == 3                 \* segment mutations (create/update/delete) explored
MaxCallers == 2             \* call slots (a settled batch may leave members running)
strategySegmentsLimit == 2  \* this.config.strategySegmentsLimit
segmentValuesLimit == 2     \* this.config.segmentValuesLimit

SegmentIds == 1 .. MaxSegments
Callers == 1 .. MaxCallers
Strategies == {"s1", "s2"}
Names == {"a", "b"}
SegmentNames == <<"a", "b", "c", "d", "e">>
Projects == {"P", "Q"}
NoProject == ""

\* featureStrategiesStore: the project each strategy belongs to
StrategyProject(sid) == IF sid = "s1" THEN "P" ELSE "Q"

SEGMENT_CREATED == "segment-created"
SEGMENT_UPDATED == "segment-updated"
SEGMENT_DELETED == "segment-deleted"

VARIABLES
    segments,   \* SegmentStore rows: a function from the existing ids to records
    nextId,     \* SegmentStore: the id the next create is given
    links,      \* SegmentStore: the strategy-segment link table, pairs <<id, strategyId>>
    events,     \* EventSink: the audit log, in append order
    applied,    \* history: the segment mutations the store applied, in order
    calls       \* the service calls in flight or settled, one per caller slot

vars == <<segments, nextId, links, events, applied, calls>>
storeVars == <<segments, nextId, links, events, applied>>

\* ----------------------------------------------------------- input values
Vals(n) == [i \in 1 .. n |-> "v"]
WithValues(n) == [hasValues |-> TRUE, values |-> Vals(n)]
WithoutValues == [hasValues |-> FALSE, values |-> <<>>]

\* constraint lists: exactly at the limit and one over it, each with a
\* constraint that has no values
ConstraintsAtLimit == <<WithValues(1), WithoutValues, WithValues(segmentValuesLimit - 1)>>
ConstraintsOverLimit == <<WithValues(segmentValuesLimit), WithoutValues, WithValues(1)>>

Malformed ==
    [wellFormed |-> FALSE, name |-> "", project |-> NoProject, constraints |-> <<>>]

Candidate(n, p, cs) ==
    [wellFormed |-> TRUE, name |-> n, project |-> p, constraints |-> cs]

\* ------------------------------------------------------------- pure checks
\* Each validate* operator is TRUE exactly when the method of that name throws.
RECURSIVE SumLengths(_)
SumLengths(cs) ==
    IF cs = <<>> THEN 0
    ELSE (IF Head(cs).hasValues THEN Len(Head(cs).values) ELSE 0) + SumLengths(Tail(cs))

\* the largest constraint measured instead of the total
RECURSIVE MaxLength(_)
MaxLength(cs) ==
    IF cs = <<>> THEN 0
    ELSE LET h == IF Head(cs).hasValues THEN Len(Head(cs).values) ELSE 0
             t == MaxLength(Tail(cs)) IN
         IF h > t THEN h ELSE t

validateSegmentValuesLimit_Largest(segment) ==
    MaxLength(segment.constraints) > segmentValuesLimit

validateSegmentValuesLimit(segment) ==
    SumLengths(segment.constraints) > segmentValuesLimit

validateStrategySegmentLimit(count) ==
    count >= strategySegmentsLimit

\* the negation of line 242 dropped
validateSegmentProject_Has(segment, projectsUsed) ==
    /\ segment.project # NoProject
    /\ \/ Cardinality(projectsUsed) > 1
       \/ (Cardinality(projectsUsed) = 1 /\ segment.project \in projectsUsed)

\* the single-project case of line 242 left out
validateSegmentProject_ManyOnly(segment, projectsUsed) ==
    /\ segment.project # NoProject
    /\ Cardinality(projectsUsed) > 1

validateSegmentProject(segment, projectsUsed) ==
    /\ segment.project # NoProject
    /\ \/ Cardinality(projectsUsed) > 1
       \/ (Cardinality(projectsUsed) = 1 /\ segment.project \notin projectsUsed)

\* ------------------------------------------------------------ store reads
segmentSchema(data) == data.wellFormed

existsByName(name) == \E i \in DOMAIN segments : segments[i].name = name

\* the uniqueness read of lines 194-196 left out
validateName_EmptyOnly(name) == IF name = "" THEN "EmptyName" ELSE "ok"

\* lines 189-197: the error validateName throws, "ok" when it returns
validateName(name) ==
    IF name = "" THEN "EmptyName"
    ELSE IF existsByName(name) THEN "NameExists"
    ELSE "ok"

\* existsByName awaited before the empty name is looked at
NameReads_Always(name) == 1

\* validateName reads the store unless the name is empty
NameReads(name) == IF name = "" THEN 0 ELSE 1

getByStrategy(sid) == {i \in SegmentIds : <<i, sid>> \in links}

getStrategiesBySegment(id) == {s \in Strategies : <<id, s>> \in links}

ProjectsUsed(id) == {StrategyProject(s) : s \in getStrategiesBySegment(id)}

Stored(input) ==
    [name |-> input.name, project |-> input.project, constraints |-> input.constraints]

\* ----------------------------------------------------------- store writes
\* SegmentStore.create: the new row gets the next id
storeCreate(input) == segments @@ (nextId :> Stored(input))

\* SegmentStore.update: full replacement of the row
storeUpdate(id, input) == [segments EXCEPT ![id] = Stored(input)]

\* SegmentStore.delete: the row goes, and its links by cascade
storeDelete(id) == [i \in DOMAIN segments \ {id} |-> segments[i]]

storeDeleteLinks(id) == {l \in links : l[1] # id}

\* SegmentStore.addToStrategy: the link table holds no pair twice
storeAddToStrategy(id, sid) == links \cup {<<id, sid>>}

\* SegmentStore.removeFromStrategy: removing an absent pair changes nothing
storeRemoveFromStrategy(id, sid) == links \ {<<id, sid>>}

\* ------------------------------------------------------------------ calls
Snapshot == [segments |-> segments, links |-> links, events |-> events]

\* A member of a Promise.all batch: one removeFromStrategy or addToStrategy.
Member(kind, id) ==
    [kind |-> kind, id |-> id,
     pc |-> IF kind = "add" THEN "limit" ELSE "remove",
     result |-> "none"]

Idle ==
    [op |-> "none", pc |-> "idle", result |-> "none",
     id |-> 0, sid |-> "", src |-> "", input |-> Malformed, ids |-> <<>>,
     preData |-> Stored(Malformed), projectsUsed |-> {}, current |-> {}, members |-> <<>>,
     reads |-> 0, writes |-> 0, pre |-> [segments |-> <<>>, links |-> {}, events |-> <<>>]]

NewCall(op) == [Idle EXCEPT !.op = op, !.pre = Snapshot]

Settled(call, result) == [call EXCEPT !.pc = "done", !.result = result]

MembersDone(call) == \A i \in DOMAIN call.members : call.members[i].pc = "done"

\* the call's promise is pending
Active(c) == calls[c].pc \notin {"idle", "done"}

SegmentOps == {"create", "update", "delete"}

\* At most k calls run at a time, the members a settled batch left running
\* included; the new call takes the first idle slot.
CanStart(c, k) ==
    /\ calls[c].pc = "idle"
    /\ \A d \in Callers : d < c => calls[d].pc # "idle"
    /\ Cardinality({d \in Callers : calls[d].pc # "idle"}) < k

CanMutate ==
    Len(applied) + Cardinality({d \in Callers : Active(d) /\ calls[d].op \in SegmentOps})
        < MaxLog

CanCreate ==
    nextId + Cardinality({d \in Callers : Active(d) /\ calls[d].op = "create"})
        <= MaxSegments

Begin(c, call) == calls' = [calls EXCEPT ![c] = call]

Continue(c, call) == calls' = [calls EXCEPT ![c] = call]

\* ----------------------------------------------------------------- create
\* lines 78-80: schema, values limit, then validateName (empty name, existsByName)
Create(k, c, data) ==
    /\ CanStart(c, k) /\ CanMutate /\ CanCreate
    /\ LET call == [NewCall("create") EXCEPT !.input = data] IN
       Begin(c,
          IF ~segmentSchema(data) THEN Settled(call, "ValidationError")
          ELSE IF validateSegmentValuesLimit(data) THEN Settled(call, "ValuesLimit")
          ELSE IF validateName(data.name) # "ok"
               THEN Settled([call EXCEPT !.reads = NameReads(data.name)],
                            validateName(data.name))
          ELSE [call EXCEPT !.reads = 1, !.pc = "persist"])
    /\ UNCHANGED storeVars

\* the insert refused when the name has been stored since the check
CreatePersist_Unique(c) ==
    /\ calls[c].op = "create" /\ calls[c].pc = "persist"
    /\ IF existsByName(calls[c].input.name)
       THEN /\ Continue(c, Settled([calls[c] EXCEPT !.writes = @ + 1], "NameExists"))
            /\ UNCHANGED <<segments, nextId, applied>>
       ELSE /\ segments' = storeCreate(calls[c].input)
            /\ nextId' = nextId + 1
            /\ applied' = Append(applied, [type |-> SEGMENT_CREATED, id |-> nextId])
            /\ Continue(c, [calls[c] EXCEPT !.id = nextId, !.pc = "event", !.writes = @ + 1])
    /\ UNCHANGED <<links, events>>

\* line 81: segmentStore.create assigns the id
CreatePersist(c) ==
    /\ calls[c].op = "create" /\ calls[c].pc = "persist"
    /\ segments' = storeCreate(calls[c].input)
    /\ nextId' = nextId + 1
    /\ applied' = Append(applied, [type |-> SEGMENT_CREATED, id |-> nextId])
    /\ Continue(c, [calls[c] EXCEPT !.id = nextId, !.pc = "event", !.writes = @ + 1])
    /\ UNCHANGED <<links, events>>

\* lines 83-89
CreateEvent(c) ==
    /\ calls[c].op = "create" /\ calls[c].pc = "event"
    /\ events' = Append(events, [type |-> SEGMENT_CREATED, id |-> calls[c].id])
    /\ Continue(c, Settled(calls[c], "ok"))
    /\ UNCHANGED <<segments, nextId, links, applied>>

\* ----------------------------------------------------------------- update
\* the comparison of line 101 left out: validateName runs for every update
Update_AlwaysValidates(k, c, id, data) ==
    /\ CanStart(c, k) /\ CanMutate
    /\ LET call == [NewCall("update") EXCEPT !.id = id, !.input = data] IN
       Begin(c,
          IF ~segmentSchema(data) THEN Settled(call, "ValidationError")
          ELSE IF validateSegmentValuesLimit(data) THEN Settled(call, "ValuesLimit")
          ELSE IF id \notin DOMAIN segments
               THEN Settled([call EXCEPT !.reads = 1], "NotFound")
          ELSE LET got == [call EXCEPT !.reads = 1, !.preData = segments[id]] IN
               IF data.name = "" THEN Settled(got, "EmptyName")
               ELSE [got EXCEPT !.pc = "existsByName"])
    /\ UNCHANGED storeVars

\* lines 97-103: schema, values limit, segmentStore.get, then the name comparison
\* and, for a changed name, the synchronous empty-name check of validateName
Update(k, c, id, data) ==
    /\ CanStart(c, k) /\ CanMutate
    /\ LET call == [NewCall("update") EXCEPT !.id = id, !.input = data] IN
       Begin(c,
          IF ~segmentSchema(data) THEN Settled(call, "ValidationError")
          ELSE IF validateSegmentValuesLimit(data) THEN Settled(call, "ValuesLimit")
          ELSE IF id \notin DOMAIN segments
               THEN Settled([call EXCEPT !.reads = 1], "NotFound")
          ELSE LET got == [call EXCEPT !.reads = 1, !.preData = segments[id]] IN
               IF segments[id].name = data.name THEN [got EXCEPT !.pc = "project"]
               ELSE IF data.name = "" THEN Settled(got, "EmptyName")
               ELSE [got EXCEPT !.pc = "existsByName"])
    /\ UNCHANGED storeVars

\* lines 102, 194-196: the uniqueness read of validateName
UpdateExistsByName(c) ==
    /\ calls[c].op = "update" /\ calls[c].pc = "existsByName"
    /\ LET call == [calls[c] EXCEPT !.reads = @ + 1] IN
       Continue(c,
          IF validateName(call.input.name) # "ok"
          THEN Settled(call, validateName(call.input.name))
          ELSE [call EXCEPT !.pc = "project"])
    /\ UNCHANGED storeVars

\* segmentStore.update issued before the project check is evaluated
UpdateProject_AfterUpdate(c) ==
    /\ calls[c].op = "update" /\ calls[c].pc = "project"
    /\ calls[c].id \in DOMAIN segments
    /\ LET used == ProjectsUsed(calls[c].id)
           call == [calls[c] EXCEPT !.reads = @ + 1, !.projectsUsed = used] IN
       Continue(c,
          IF validateSegmentProject(call.input, used)
          THEN Settled(call, "InvalidProject")
          ELSE [call EXCEPT !.pc = "persist"])
    /\ segments' = storeUpdate(calls[c].id, calls[c].input)
    /\ UNCHANGED <<nextId, links, events, applied>>

\* lines 105, 228-250: getStrategiesBySegment and the project check
UpdateProject(c) ==
    /\ calls[c].op = "update" /\ calls[c].pc = "project"
    /\ LET used == ProjectsUsed(calls[c].id)
           call == [calls[c] EXCEPT !.reads = @ + 1, !.projectsUsed = used] IN
       Continue(c,
          IF validateSegmentProject(call.input, used)
          THEN Settled(call, "InvalidProject")
          ELSE [call EXCEPT !.pc = "persist"])
    /\ UNCHANGED storeVars

\* line 107: segmentStore.update; the store fails when the row is gone
UpdatePersist(c) ==
    /\ calls[c].op = "update" /\ calls[c].pc = "persist"
    /\ LET id == calls[c].id IN
       IF id \in DOMAIN segments
       THEN /\ segments' = storeUpdate(id, calls[c].input)
            /\ applied' = Append(applied, [type |-> SEGMENT_UPDATED, id |-> id])
            /\ Continue(c, [calls[c] EXCEPT !.pc = "event", !.writes = @ + 1])
       ELSE /\ Continue(c, Settled([calls[c] EXCEPT !.writes = @ + 1], "StoreError"))
            /\ UNCHANGED <<segments, applied>>
    /\ UNCHANGED <<nextId, links, events>>

\* lines 109-114
UpdateEvent(c) ==
    /\ calls[c].op = "update" /\ calls[c].pc = "event"
    /\ events' = Append(events, [type |-> SEGMENT_UPDATED, id |-> calls[c].id])
    /\ Continue(c, Settled(calls[c], "ok"))
    /\ UNCHANGED <<segments, nextId, links, applied>>

\* ----------------------------------------------------------------- delete
\* line 118: segmentStore.get
Delete(k, c, id) ==
    /\ CanStart(c, k) /\ CanMutate
    /\ LET call == [NewCall("delete") EXCEPT !.id = id, !.reads = 1] IN
       Begin(c,
          IF id \notin DOMAIN segments THEN Settled(call, "NotFound")
          ELSE [call EXCEPT !.preData = segments[id], !.pc = "persist"])
    /\ UNCHANGED storeVars

\* line 119: segmentStore.delete removes the row and, by cascade, its links
DeletePersist(c) ==
    /\ calls[c].op = "delete" /\ calls[c].pc = "persist"
    /\ LET id == calls[c].id IN
       /\ segments' = storeDelete(id)
       /\ links' = storeDeleteLinks(id)
       /\ applied' = IF id \in DOMAIN segments
                     THEN Append(applied, [type |-> SEGMENT_DELETED, id |-> id])
                     ELSE applied
    /\ Continue(c, [calls[c] EXCEPT !.pc = "event", !.writes = @ + 1])
    /\ UNCHANGED <<nextId, events>>

\* the event type of update reused for delete
DeleteEvent_AsUpdated(c) ==
    /\ calls[c].op = "delete" /\ calls[c].pc = "event"
    /\ events' = Append(events, [type |-> SEGMENT_UPDATED, id |-> calls[c].id])
    /\ Continue(c, Settled(calls[c], "ok"))
    /\ UNCHANGED <<segments, nextId, links, applied>>

\* lines 120-124
DeleteEvent(c) ==
    /\ calls[c].op = "delete" /\ calls[c].pc = "event"
    /\ events' = Append(events, [type |-> SEGMENT_DELETED, id |-> calls[c].id])
    /\ Continue(c, Settled(calls[c], "ok"))
    /\ UNCHANGED <<segments, nextId, links, applied>>

\* ------------------------------------------------- strategy association
Range(seq) == {seq[i] : i \in DOMAIN seq}

\* the rows of a store read, in id order
RECURSIVE SetToSeq(_)
SetToSeq(S) ==
    IF S = {} THEN <<>>
    ELSE LET m == CHOOSE x \in S : \A y \in S : x <= y IN <<m>> \o SetToSeq(S \ {m})

Batch(kind, ids) == [i \in DOMAIN ids |-> Member(kind, ids[i])]

\* the negation of line 164 dropped
segmentIdsToRemove_Kept(call) == SetToSeq(call.current \cap Range(call.ids))

\* lines 163-165
segmentIdsToRemove(call) == SetToSeq(call.current \ Range(call.ids))

\* lines 173-175
segmentIdsToAdd(call) == SelectSeq(call.ids, LAMBDA id : id \notin call.current)

\* lines 145-148, called directly: a batch of one
AddToStrategy(k, c, id, sid) ==
    /\ CanStart(c, k)
    /\ Begin(c, [NewCall("addToStrategy") EXCEPT
                    !.id = id, !.sid = sid, !.pc = "adding",
                    !.members = <<Member("add", id)>>])
    /\ UNCHANGED storeVars

\* lines 185-187, called directly: a batch of one
RemoveFromStrategy(k, c, id, sid) ==
    /\ CanStart(c, k)
    /\ Begin(c, [NewCall("removeFromStrategy") EXCEPT
                    !.id = id, !.sid = sid, !.pc = "removing",
                    !.members = <<Member("remove", id)>>])
    /\ UNCHANGED storeVars

\* lines 131-141: read the source, issue one addToStrategy per segment
CloneStrategySegments(k, c, src, tgt) ==
    /\ CanStart(c, k)
    /\ LET call == [NewCall("cloneStrategySegments") EXCEPT
                       !.src = src, !.sid = tgt, !.reads = 1,
                       !.current = getByStrategy(src),
                       !.members = Batch("add", SetToSeq(getByStrategy(src)))] IN
       Begin(c, IF call.members = <<>> THEN Settled(call, "ok")
                ELSE [call EXCEPT !.pc = "adding"])
    /\ UNCHANGED storeVars

\* lines 173-181: the additions are issued once every removal has resolved
IssueAdditions(call) ==
    LET toAdd == IF call.op = "updateStrategySegments"
                 THEN segmentIdsToAdd(call) ELSE <<>> IN
    IF toAdd = <<>> THEN Settled(call, "ok")
    ELSE [call EXCEPT !.pc = "adding", !.members = @ \o Batch("add", toAdd)]

\* removals and additions issued as one batch, none awaited before the other
UpdateStrategySegments_OneBatch(k, c, sid, ids) ==
    /\ CanStart(c, k)
    /\ LET call == [NewCall("updateStrategySegments") EXCEPT !.sid = sid, !.ids = ids]
           read == [call EXCEPT !.reads = 1, !.current = getByStrategy(sid)]
           all == Batch("remove", segmentIdsToRemove(read))
                     \o Batch("add", segmentIdsToAdd(read)) IN
       Begin(c,
          IF Len(ids) > strategySegmentsLimit THEN Settled(call, "StrategyLimit")
          ELSE IF all = <<>> THEN Settled(read, "ok")
          ELSE [read EXCEPT !.pc = "adding", !.members = all])
    /\ UNCHANGED storeVars

\* the distinct ids counted at line 154 instead of the length of the list
UpdateStrategySegments_CountsDistinct(k, c, sid, ids) ==
    /\ CanStart(c, k)
    /\ LET call == [NewCall("updateStrategySegments") EXCEPT !.sid = sid, !.ids = ids]
           read == [call EXCEPT !.reads = 1, !.current = getByStrategy(sid)] IN
       Begin(c,
          IF Cardinality(Range(ids)) > strategySegmentsLimit
          THEN Settled(call, "StrategyLimit")
          ELSE IF segmentIdsToRemove(read) = <<>> THEN IssueAdditions(read)
          ELSE [read EXCEPT !.pc = "removing",
                            !.members = Batch("remove", segmentIdsToRemove(read))])
    /\ UNCHANGED storeVars

\* lines 154-171: the length check, the read of the current links, the removals
UpdateStrategySegments(k, c, sid, ids) ==
    /\ CanStart(c, k)
    /\ LET call == [NewCall("updateStrategySegments") EXCEPT !.sid = sid, !.ids = ids]
           read == [call EXCEPT !.reads = 1, !.current = getByStrategy(sid)] IN
       Begin(c,
          IF Len(ids) > strategySegmentsLimit THEN Settled(call, "StrategyLimit")
          ELSE IF segmentIdsToRemove(read) = <<>> THEN IssueAdditions(read)
          ELSE [read EXCEPT !.pc = "removing",
                            !.members = Batch("remove", segmentIdsToRemove(read))])
    /\ UNCHANGED storeVars

\* the removal keyed by the strategy alone: every link of the strategy goes
RemoveMember_ByStrategy(c, i, fails) ==
    /\ i \in DOMAIN calls[c].members
    /\ calls[c].members[i].pc = "remove"
    /\ LET m == calls[c].members[i]
           call == [calls[c] EXCEPT
                      !.writes = @ + 1,
                      !.members[i] = [m EXCEPT !.pc = "done",
                                        !.result = IF fails THEN "StoreError" ELSE "ok"]] IN
       /\ links' = IF fails THEN links ELSE {l \in links : l[2] # call.sid}
       /\ Continue(c,
             IF call.pc # "removing" THEN call
             ELSE IF fails THEN Settled(call, "StoreError")
             ELSE IF MembersDone(call) THEN IssueAdditions(call)
             ELSE call)
    /\ UNCHANGED <<segments, nextId, events, applied>>

\* the additions issued when the first removal resolves, the others pending
RemoveMember_Eager(c, i, fails) ==
    /\ i \in DOMAIN calls[c].members
    /\ calls[c].members[i].pc = "remove"
    /\ LET m == calls[c].members[i]
           call == [calls[c] EXCEPT
                      !.writes = @ + 1,
                      !.members[i] = [m EXCEPT !.pc = "done",
                                        !.result = IF fails THEN "StoreError" ELSE "ok"]] IN
       /\ links' = IF fails THEN links ELSE storeRemoveFromStrategy(m.id, call.sid)
       /\ Continue(c,
             IF call.pc # "removing" THEN call
             ELSE IF fails THEN Settled(call, "StoreError")
             ELSE IssueAdditions(call))
    /\ UNCHANGED <<segments, nextId, events, applied>>

\* line 186: segmentStore.removeFromStrategy, which may fail; Promise.all
\* rejects at the first failure and resolves when every member has resolved
RemoveMember(c, i, fails) ==
    /\ i \in DOMAIN calls[c].members
    /\ calls[c].members[i].pc = "remove"
    /\ LET m == calls[c].members[i]
           call == [calls[c] EXCEPT
                      !.writes = @ + 1,
                      !.members[i] = [m EXCEPT !.pc = "done",
                                        !.result = IF fails THEN "StoreError" ELSE "ok"]] IN
       /\ links' = IF fails THEN links ELSE storeRemoveFromStrategy(m.id, call.sid)
       /\ Continue(c,
             IF call.pc # "removing" THEN call
             ELSE IF fails THEN Settled(call, "StoreError")
             ELSE IF MembersDone(call) THEN IssueAdditions(call)
             ELSE call)
    /\ UNCHANGED <<segments, nextId, events, applied>>

\* the members of a batch that has been rejected are dropped
AddMemberLimit_Cancelled(c, i) ==
    /\ i \in DOMAIN calls[c].members
    /\ calls[c].members[i].pc = "limit"
    /\ calls[c].pc = "adding"
    /\ LET m == calls[c].members[i]
           over == validateStrategySegmentLimit(Cardinality(getByStrategy(calls[c].sid)))
           call == [calls[c] EXCEPT
                      !.reads = @ + 1,
                      !.members[i] = IF over
                                     THEN [m EXCEPT !.pc = "done", !.result = "StrategyLimit"]
                                     ELSE [m EXCEPT !.pc = "link"]] IN
       Continue(c, IF over THEN Settled(call, "StrategyLimit") ELSE call)
    /\ UNCHANGED storeVars

\* a rejected addition takes back the additions of the call applied so far
AddMemberLimit_RollsBack(c, i) ==
    /\ i \in DOMAIN calls[c].members
    /\ calls[c].members[i].pc = "limit"
    /\ LET m == calls[c].members[i]
           over == validateStrategySegmentLimit(Cardinality(getByStrategy(calls[c].sid)))
           added == {calls[c].members[j].id :
                       j \in {n \in DOMAIN calls[c].members :
                                 /\ calls[c].members[n].kind = "add"
                                 /\ calls[c].members[n].result = "ok"}}
           call == [calls[c] EXCEPT
                      !.reads = @ + 1,
                      !.members[i] = IF over
                                     THEN [m EXCEPT !.pc = "done", !.result = "StrategyLimit"]
                                     ELSE [m EXCEPT !.pc = "link"]] IN
       /\ Continue(c, IF over /\ call.pc = "adding" THEN Settled(call, "StrategyLimit")
                      ELSE call)
       /\ links' = IF over THEN {l \in links : l[2] # call.sid \/ l[1] \notin added}
                   ELSE links
    /\ UNCHANGED <<segments, nextId, events, applied>>

\* lines 146, 199-212: the limit check of one addToStrategy
AddMemberLimit(c, i) ==
    /\ i \in DOMAIN calls[c].members
    /\ calls[c].members[i].pc = "limit"
    /\ LET m == calls[c].members[i]
           over == validateStrategySegmentLimit(Cardinality(getByStrategy(calls[c].sid)))
           call == [calls[c] EXCEPT
                      !.reads = @ + 1,
                      !.members[i] = IF over
                                     THEN [m EXCEPT !.pc = "done", !.result = "StrategyLimit"]
                                     ELSE [m EXCEPT !.pc = "link"]] IN
       Continue(c, IF over /\ call.pc = "adding" THEN Settled(call, "StrategyLimit")
                   ELSE call)
    /\ UNCHANGED storeVars

\* the limit looked at again when the link is written
AddMemberLink_Checked(c, i, enforced) ==
    /\ i \in DOMAIN calls[c].members
    /\ calls[c].members[i].pc = "link"
    /\ LET m == calls[c].members[i]
           over == validateStrategySegmentLimit(Cardinality(getByStrategy(calls[c].sid)))
           found == m.id \in DOMAIN segments \/ ~enforced
           res == IF over THEN "StrategyLimit" ELSE IF found THEN "ok" ELSE "StoreError"
           call == [calls[c] EXCEPT
                      !.writes = @ + 1,
                      !.members[i] = [m EXCEPT !.pc = "done", !.result = res]] IN
       /\ links' = IF res = "ok" THEN storeAddToStrategy(m.id, call.sid) ELSE links
       /\ Continue(c,
             IF call.pc # "adding" THEN call
             ELSE IF res # "ok" THEN Settled(call, res)
             ELSE IF MembersDone(call) THEN Settled(call, "ok")
             ELSE call)
    /\ UNCHANGED <<segments, nextId, events, applied>>

\* line 147: segmentStore.addToStrategy.  The service does not look the segment
\* up; what the store does with a link to no segment is the store's: it
\* refuses it (enforced) or inserts the pair.
AddMemberLink(c, i, enforced) ==
    /\ i \in DOMAIN calls[c].members
    /\ calls[c].members[i].pc = "link"
    /\ LET m == calls[c].members[i]
           found == m.id \in DOMAIN segments \/ ~enforced
           call == [calls[c] EXCEPT
                      !.writes = @ + 1,
                      !.members[i] = [m EXCEPT !.pc = "done",
                                        !.result = IF found THEN "ok" ELSE "StoreError"]] IN
       /\ links' = IF found THEN storeAddToStrategy(m.id, call.sid) ELSE links
       /\ Continue(c,
             IF call.pc # "adding" THEN call
             ELSE IF ~found THEN Settled(call, "StoreError")
             ELSE IF MembersDone(call) THEN Settled(call, "ok")
             ELSE call)
    /\ UNCHANGED <<segments, nextId, events, applied>>

\* the caller has the result of the call, and nothing of the call still runs
Return(c) ==
    /\ calls[c].pc = "done" /\ MembersDone(calls[c])
    /\ calls' = [calls EXCEPT ![c] = Idle]
    /\ UNCHANGED storeVars

\* ------------------------------------------------------------ specification
Init ==
    /\ segments = <<>>
    /\ nextId = 1
    /\ links = {}
    /\ events = <<>>
    /\ applied = <<>>
    /\ calls = [c \in Callers |-> Idle]

\* the data a caller may pass to create and update
Inputs ==
    {Malformed} \cup
    {Candidate(n, p, ConstraintsAtLimit) : n \in Names \cup {""},
                                           p \in Projects \cup {NoProject}} \cup
    {Candidate(n, NoProject, ConstraintsOverLimit) : n \in {"a", ""}}

\* the data of the i-th segment when only its links are of interest
Plain(i) == Candidate(SegmentNames[i], NoProject, ConstraintsAtLimit)

\* the lists a caller may pass to updateStrategySegments, repeated ids included
DesiredLists ==
    UNION {[1 .. n -> SegmentIds] : n \in 0 .. (strategySegmentsLimit + 1)}

\* those in ascending order (the members of a batch run in every order anyway);
\* a list longer than the limit repeats no id
SortedLists ==
    {q \in DesiredLists :
        \A i \in 1 .. (Len(q) - 1) :
            IF Len(q) > strategySegmentsLimit THEN q[i] < q[i + 1] ELSE q[i] <= q[i + 1]}

SegmentSteps(c) ==
    \/ CreatePersist(c) \/ CreateEvent(c)
    \/ UpdateExistsByName(c) \/ UpdateProject(c) \/ UpdatePersist(c) \/ UpdateEvent(c)
    \/ DeletePersist(c) \/ DeleteEvent(c)

\* a batch holds the removals of every current link and the additions of a
\* list within the limit, at most
MemberIndex == 1 .. (MaxSegments + strategySegmentsLimit)

\* Faults: whether a removal may fail in the store; Enforced: whether the
\* store refuses a link to a segment that does not exist
MemberSteps(c, Faults, Enforced) ==
    \E i \in MemberIndex :
       \/ \E fails \in Faults : RemoveMember(c, i, fails)
       \/ AddMemberLimit(c, i)
       \/ \E enforced \in Enforced : AddMemberLink(c, i, enforced)

SegmentCalls(k, c) ==
    \/ \E data \in Inputs : Create(k, c, data)
    \/ \E id \in SegmentIds, data \in Inputs : Update(k, c, id, data)
    \/ \E id \in SegmentIds : Delete(k, c, id)

LinkCalls(k, c) ==
    \/ \E id \in SegmentIds, sid \in Strategies : AddToStrategy(k, c, id, sid)
    \/ \E id \in SegmentIds, sid \in Strategies : RemoveFromStrategy(k, c, id, sid)

BatchCalls(k, c, Lists) ==
    \/ \E src \in Strategies, tgt \in Strategies : CloneStrategySegments(k, c, src, tgt)
    \/ \E sid \in Strategies, ids \in Lists : UpdateStrategySegments(k, c, sid, ids)

\* every operation, one caller at a time
Next ==
    \E c \in Callers :
       \/ SegmentCalls(1, c) \/ LinkCalls(1, c) \/ BatchCalls(1, c, DesiredLists)
       \/ SegmentSteps(c) \/ MemberSteps(c, BOOLEAN, BOOLEAN)
       \/ Return(c)

Spec == Init /\ [][Next]_vars

\* segment administration and single links, one caller at a time
NextSegments ==
    \E c \in Callers :
       \/ SegmentCalls(1, c) \/ LinkCalls(1, c)
       \/ SegmentSteps(c) \/ MemberSteps(c, {FALSE}, {TRUE})
       \/ Return(c)

SpecSegments == Init /\ [][NextSegments]_vars

\* strategy association over plain segments, one caller at a time
NextLinks ==
    \E c \in Callers :
       \/ Create(1, c, Plain(nextId))
       \/ CreatePersist(c) \/ CreateEvent(c)
       \/ LinkCalls(1, c) \/ BatchCalls(1, c, SortedLists)
       \/ MemberSteps(c, {FALSE}, {TRUE})
       \/ Return(c)

SpecLinks == Init /\ [][NextLinks]_vars

\* the ascending lists the length check of updateStrategySegments lets through
ListsWithinLimit == {q \in SortedLists : Len(q) <= strategySegmentsLimit}

\* those that repeat no id
DistinctLists ==
    {q \in ListsWithinLimit : \A i \in 1 .. (Len(q) - 1) : q[i] < q[i + 1]}

\* two callers at a time reconcile the links of one strategy over plain
\* segments, and a removal may fail in the store
NextRace ==
    \E c \in Callers :
       \/ Create(1, c, Plain(nextId))
       \/ CreatePersist(c) \/ CreateEvent(c)
       \/ \E ids \in DistinctLists : UpdateStrategySegments(2, c, "s1", ids)
       \/ MemberSteps(c, BOOLEAN, {TRUE})
       \/ Return(c)

SpecRace == Init /\ [][NextRace]_vars

\* the data of a segment when only its name is of interest
NameInputs == {Candidate(n, NoProject, ConstraintsAtLimit) : n \in Names}

\* two callers at a time create and rename segments
NextNames ==
    \E c \in Callers :
       \/ \E data \in NameInputs : Create(2, c, data)
       \/ \E id \in SegmentIds, data \in NameInputs : Update(2, c, id, data)
       \/ CreatePersist(c) \/ CreateEvent(c)
       \/ UpdateExistsByName(c) \/ UpdateProject(c) \/ UpdatePersist(c) \/ UpdateEvent(c)
       \/ Return(c)

SpecNames == Init /\ [][NextNames]_vars

\* addToStrategy called with the id of a segment that exists at the call
LinkExisting(k, c, id, sid) ==
    /\ id \in DOMAIN segments
    /\ AddToStrategy(k, c, id, sid)

\* two callers at a time delete segments and link them to a strategy; a link
\* to a segment deleted since the call is the store's to refuse or to insert
NextCascade ==
    \E c \in Callers :
       \/ Create(1, c, Plain(nextId))
       \/ CreatePersist(c) \/ CreateEvent(c)
       \/ \E id \in SegmentIds : Delete(2, c, id)
       \/ DeletePersist(c) \/ DeleteEvent(c)
       \/ \E id \in SegmentIds : LinkExisting(2, c, id, "s1")
       \/ \E i \in MemberIndex :
             \/ AddMemberLimit(c, i)
             \/ \E enforced \in BOOLEAN : AddMemberLink(c, i, enforced)
       \/ Return(c)

SpecCascade == Init /\ [][NextCascade]_vars

\* the ascending lists over two ids that the length check rejects: each is
\* over the limit through its repeated ids
ListsOverLimit ==
    {q \in DesiredLists :
        /\ Len(q) > strategySegmentsLimit
        /\ Range(q) \subseteq {1, 2}
        /\ \A i \in 1 .. (Len(q) - 1) : q[i] <= q[i + 1]}

\* the batches over plain segments, one caller at a time, with removals that
\* may fail in the store
NextPartial ==
    \E c \in Callers :
       \/ Create(1, c, Plain(nextId))
       \/ CreatePersist(c) \/ CreateEvent(c)
       \/ BatchCalls(1, c, ListsWithinLimit \cup ListsOverLimit)
       \/ MemberSteps(c, BOOLEAN, {TRUE})
       \/ Return(c)

SpecPartial == Init /\ [][NextPartial]_vars

\* the continuation of one batch member after the store call it awaits
MemberStep(c, i) ==
    \/ \E fails \in BOOLEAN : RemoveMember(c, i, fails)
    \/ AddMemberLimit(c, i)
    \/ AddMemberLink(c, i, TRUE)

\* the store answers every call and the event loop runs the continuations
\* that wait for it: a call with members to run gets one of them run
Fairness == \A c \in Callers : WF_vars(\E i \in MemberIndex : MemberStep(c, i))

\* one caller at a time reconciles the links of strategy s2 and clones them
\* onto s1, over plain segments and with removals that may fail in the store
NextFair ==
    \E c \in Callers :
       \/ Create(1, c, Plain(nextId))
       \/ CreatePersist(c) \/ CreateEvent(c)
       \/ CloneStrategySegments(1, c, "s2", "s1")
       \/ \E ids \in DistinctLists : UpdateStrategySegments(1, c, "s2", ids)
       \/ MemberSteps(c, BOOLEAN, {TRUE})
       \/ Return(c)

SpecFair == Init /\ [][NextFair]_vars /\ Fairness

\* ------------------------------------------------------------------ claims
LinkedTo(ls, sid) == {i \in SegmentIds : <<i, sid>> \in ls}

Finished(c) == calls[c].pc = "done" /\ MembersDone(calls[c])

MemberResults(call) == {call.members[i].result : i \in DOMAIN call.members}

\* C1: with a fixed limit and no other caller, a target strategy that held at
\* most strategySegmentsLimit links holds at most strategySegmentsLimit links
\* once an addToStrategy or a cloneStrategySegments onto it has completed
\* successfully, whatever the interleaving of the checks and writes of the batch.
C1_LimitHeldAfterAddOrClone ==
    \A c \in Callers :
       (/\ calls[c].op \in {"addToStrategy", "cloneStrategySegments"}
        /\ Finished(c) /\ calls[c].result = "ok"
        /\ Cardinality(LinkedTo(calls[c].pre.links, calls[c].sid)) <= strategySegmentsLimit)
       => Cardinality(getByStrategy(calls[c].sid)) <= strategySegmentsLimit

\* C2: an updateStrategySegments with a list within the limit, run alone and
\* without a store failure, succeeds and leaves the strategy linked to exactly
\* the listed segments, whatever its links were and however the members of
\* its two batches interleave.
C2_UpdateReachesDesired ==
    \A c \in Callers :
       (/\ calls[c].op = "updateStrategySegments" /\ Finished(c)
        /\ Len(calls[c].ids) <= strategySegmentsLimit
        /\ "StoreError" \notin MemberResults(calls[c]))
       => /\ calls[c].result = "ok"
          /\ getByStrategy(calls[c].sid) = Range(calls[c].ids)

\* an update that removed a link and added two, its additions interleaved
C2_Witness ==
    \E c \in Callers :
       /\ calls[c].op = "updateStrategySegments" /\ Finished(c)
       /\ calls[c].result = "ok"
       /\ calls[c].current \ Range(calls[c].ids) # {}
       /\ Cardinality(Range(calls[c].ids) \ calls[c].current) = 2
       /\ getByStrategy(calls[c].sid) = Range(calls[c].ids)

\* C3: when the strategy holds exactly strategySegmentsLimit links and the
\* desired list has that size and brings new segments, no addToStrategy of the
\* call is rejected by the limit: each limit check sees the shrunk set.
C3_SwapAtLimitNotRejected ==
    \A c \in Callers :
       (/\ calls[c].op = "updateStrategySegments"
        /\ Cardinality(calls[c].current) = strategySegmentsLimit
        /\ Len(calls[c].ids) = strategySegmentsLimit
        /\ Range(calls[c].ids) \ calls[c].current # {})
       => /\ "StrategyLimit" \notin MemberResults(calls[c])
          /\ calls[c].result # "StrategyLimit"

\* a one-for-one swap at the limit whose addition passed its limit check
C3_Witness ==
    \E c \in Callers :
       /\ calls[c].op = "updateStrategySegments" /\ Finished(c)
       /\ calls[c].result = "ok"
       /\ Cardinality(calls[c].current) = strategySegmentsLimit
       /\ Len(calls[c].ids) = strategySegmentsLimit
       /\ Cardinality(calls[c].current \ Range(calls[c].ids)) = 1
       /\ Cardinality(Range(calls[c].ids) \ calls[c].current) = 1
       /\ Cardinality(getByStrategy(calls[c].sid)) = strategySegmentsLimit

NamedLike(segs, name, except) ==
    {i \in DOMAIN segs \ except : segs[i].name = name}

ValuesCount(input) == SumLengths(input.constraints)

\* C4: with the operations run one at a time, every existing segment has a
\* non-empty name and no two share a name; a create under the name of an
\* existing segment is rejected (with the duplicate-name error once the earlier
\* checks pass), and so is an update to the name of a different segment.
C4_NamesNonEmptyAndUnique ==
    /\ \A i \in DOMAIN segments : segments[i].name # ""
    /\ \A i, j \in DOMAIN segments : i # j => segments[i].name # segments[j].name
    /\ \A c \in Callers :
          (/\ calls[c].op = "create" /\ Finished(c)
           /\ NamedLike(calls[c].pre.segments, calls[c].input.name, {}) # {})
          => /\ calls[c].result # "ok"
             /\ (calls[c].input.wellFormed
                    /\ ValuesCount(calls[c].input) <= segmentValuesLimit)
                => calls[c].result = "NameExists"
    /\ \A c \in Callers :
          (/\ calls[c].op = "update" /\ Finished(c)
           /\ NamedLike(calls[c].pre.segments, calls[c].input.name, {calls[c].id}) # {})
          => /\ calls[c].result # "ok"
             /\ (calls[c].input.wellFormed
                    /\ ValuesCount(calls[c].input) <= segmentValuesLimit
                    /\ calls[c].id \in DOMAIN calls[c].pre.segments)
                => calls[c].result = "NameExists"

\* two segments exist and an update of one to the name of the other was rejected
C4_Witness ==
    \E c \in Callers :
       /\ calls[c].op = "update" /\ Finished(c)
       /\ calls[c].result = "NameExists"
       /\ Cardinality(DOMAIN segments) = 2
       /\ calls[c].id \in DOMAIN segments
       /\ NamedLike(segments, calls[c].input.name, {calls[c].id}) # {}

\* C5: every stored segment carries at most segmentValuesLimit constraint
\* values in total (a constraint without values counts 0); a create or update
\* with more is rejected before SegmentStore.create/update is called and the
\* stored segments are unchanged.
C5_ValuesWithinLimit ==
    /\ \A i \in DOMAIN segments : ValuesCount(segments[i]) <= segmentValuesLimit
    /\ \A c \in Callers :
          (/\ calls[c].op \in {"create", "update"} /\ Finished(c)
           /\ calls[c].input.wellFormed
           /\ ValuesCount(calls[c].input) > segmentValuesLimit)
          => /\ calls[c].result = "ValuesLimit"
             /\ calls[c].writes = 0
             /\ segments = calls[c].pre.segments

\* an update over the limit was rejected while a segment at the limit is stored
C5_Witness ==
    \E c \in Callers :
       /\ calls[c].op = "update" /\ Finished(c)
       /\ calls[c].result = "ValuesLimit"
       /\ calls[c].id \in DOMAIN segments
       /\ ValuesCount(segments[calls[c].id]) = segmentValuesLimit

\* C6: the audit log is, event for event, the log of the applied segment
\* mutations (same type, same segment, same order); an event is never ahead
\* of its mutation, and the only mutations without their event yet are those
\* of the calls that have persisted and are about to emit it.
C6_OneEventPerMutation ==
    /\ Len(events) <= Len(applied)
    /\ \A n \in 1 .. Len(events) : events[n] = applied[n]
    /\ Len(applied) = Len(events) + Cardinality({c \in Callers : calls[c].pc = "event"})

\* a create, an update and a delete have each been applied and audited
C6_Witness ==
    /\ \A c \in Callers : ~Active(c)
    /\ Len(events) = 3
    /\ {events[n].type : n \in 1 .. Len(events)}
          = {SEGMENT_CREATED, SEGMENT_UPDATED, SEGMENT_DELETED}

ScopedIn(segs, ls) ==
    \A i \in DOMAIN segs :
       segs[i].project # NoProject
       => \A s \in Strategies : <<i, s>> \in ls => StrategyProject(s) = segs[i].project

ProjectScoped == ScopedIn(segments, links)

\* C7: after every successful operation, every strategy linked to a segment
\* that declares a project belongs to that project.
C7_ProjectScopeAfterSuccess ==
    \A c \in Callers : (Finished(c) /\ calls[c].result = "ok") => ProjectScoped

\* C7, amended: a successful create, update, delete or removeFromStrategy, run
\* alone from a state where every project-scoped segment is linked only to
\* strategies of its project, ends in such a state; addToStrategy and the
\* batches built on it check no project.
C7_ScopeKeptBySegmentOps ==
    \A c \in Callers :
       (/\ calls[c].op \in {"create", "update", "delete", "removeFromStrategy"}
        /\ Finished(c) /\ calls[c].result = "ok"
        /\ ScopedIn(calls[c].pre.segments, calls[c].pre.links))
       => ProjectScoped

\* an unscoped segment linked to a strategy of P was narrowed to project P
C7_Witness ==
    \E c \in Callers :
       /\ calls[c].op = "update" /\ Finished(c) /\ calls[c].result = "ok"
       /\ calls[c].preData.project = NoProject
       /\ calls[c].input.project = "P"
       /\ getStrategiesBySegment(calls[c].id) = {"s1"}
       /\ ProjectScoped

PreProjects(call) ==
    {StrategyProject(s) : s \in {t \in Strategies : <<call.id, t>> \in call.pre.links}}

OutOfScope(call) ==
    /\ call.input.project # NoProject
    /\ \/ Cardinality(PreProjects(call)) > 1
       \/ /\ Cardinality(PreProjects(call)) = 1
          /\ call.input.project \notin PreProjects(call)

\* C8: an update ends with the invalid-project error only when its project is
\* set and the linked strategies span several projects or one other project,
\* and in that case it ends with that error unless an earlier check of the
\* update rejected it first; it never succeeds then.
C8_InvalidProjectExactly ==
    \A c \in Callers :
       (calls[c].op = "update" /\ Finished(c))
       => /\ calls[c].result = "InvalidProject" => OutOfScope(calls[c])
          /\ OutOfScope(calls[c])
             => calls[c].result \in {"InvalidProject", "ValuesLimit", "NotFound",
                                     "EmptyName", "NameExists"}
          /\ (/\ calls[c].id \in DOMAIN calls[c].pre.segments
              /\ calls[c].input.wellFormed
              /\ ValuesCount(calls[c].input) <= segmentValuesLimit
              /\ calls[c].input.name = calls[c].pre.segments[calls[c].id].name
              /\ ~OutOfScope(calls[c]))
             => calls[c].result = "ok"

\* an update to project Q was rejected while a strategy of P alone is linked
C8_Witness ==
    \E c \in Callers :
       /\ calls[c].op = "update" /\ Finished(c)
       /\ calls[c].result = "InvalidProject"
       /\ calls[c].input.project = "Q"
       /\ PreProjects(calls[c]) = {"P"}

CheckErrors ==
    {"ValidationError", "ValuesLimit", "EmptyName", "NameExists", "NotFound",
     "InvalidProject", "StrategyLimit"}

\* C9: a create, update, delete or addToStrategy that fails a check leaves the
\* segments, the links and the audit log as they were when it was called,
\* and has issued no mutating store call.
C9_FailedCheckIsNoOp ==
    \A c \in Callers :
       (/\ calls[c].op \in {"create", "update", "delete", "addToStrategy"}
        /\ calls[c].pc = "done" /\ calls[c].result \in CheckErrors)
       => /\ segments = calls[c].pre.segments
          /\ links = calls[c].pre.links
          /\ events = calls[c].pre.events
          /\ calls[c].writes = 0

\* an update rejected by the project check, the last check before the write
C9_Witness ==
    \E c \in Callers :
       /\ calls[c].op = "update" /\ calls[c].pc = "done"
       /\ calls[c].result = "InvalidProject"
       /\ calls[c].input.name # calls[c].preData.name
       /\ events # <<>> /\ links # {}

\* C10: removing a pair that is not linked is no error (unless the store itself
\* fails) and changes no link; adding a pair that is already linked changes no
\* link, so the pair still counts once, also when the strategy is exactly at
\* its limit.
C10_LinkIdempotence ==
    \A c \in Callers :
       Finished(c) =>
          /\ (/\ calls[c].op = "removeFromStrategy"
              /\ <<calls[c].id, calls[c].sid>> \notin calls[c].pre.links)
             => /\ links = calls[c].pre.links
                /\ calls[c].result = "ok" \/ "StoreError" \in MemberResults(calls[c])
          /\ (/\ calls[c].op = "addToStrategy"
              /\ <<calls[c].id, calls[c].sid>> \in calls[c].pre.links)
             => /\ links = calls[c].pre.links
                /\ Cardinality(getByStrategy(calls[c].sid))
                     = Cardinality(LinkedTo(calls[c].pre.links, calls[c].sid))

\* a second add of a pair whose first add filled the strategy to the limit
C10_Witness ==
    \E c \in Callers :
       /\ calls[c].op = "addToStrategy" /\ Finished(c)
       /\ <<calls[c].id, calls[c].sid>> \in calls[c].pre.links
       /\ Cardinality(LinkedTo(calls[c].pre.links, calls[c].sid)) = strategySegmentsLimit
       /\ links = calls[c].pre.links

ToRemove(call) == call.current \ Range(call.ids)

ToAdd(call) == Range(call.ids) \ call.current

Failed(call) ==
    {i \in DOMAIN call.members : call.members[i].result \notin {"none", "ok"}}

\* the members that have made their store call
StoreCalls(call) ==
    {i \in DOMAIN call.members :
        call.members[i].pc = "done" /\ call.members[i].result # "StrategyLimit"}

OwnLinks(call, ids) == {<<i, call.sid>> : i \in ids}

\* C11: once a removal or an addition of an updateStrategySegments has failed,
\* the call is settled with the error of a failed member; the call makes no
\* store call besides those of its members, and no step of the call puts back
\* a link it was to remove or takes away a link it was to add (nothing that
\* was applied is undone by the call).
C11_NoCompensation ==
    /\ [](\A c \in Callers :
             calls[c].op = "updateStrategySegments"
             => /\ calls[c].writes = Cardinality(StoreCalls(calls[c]))
                /\ Failed(calls[c]) # {}
                   => /\ calls[c].pc = "done"
                      /\ calls[c].result
                            \in {calls[c].members[i].result : i \in Failed(calls[c])})
    /\ [][\A c \in Callers :
             (/\ calls[c].op = "updateStrategySegments"
              /\ calls'[c].op = "updateStrategySegments"
              /\ calls'[c] # calls[c])
             => /\ links' \ links \subseteq OwnLinks(calls[c], ToAdd(calls[c]))
                /\ links \ links' \subseteq OwnLinks(calls[c], ToRemove(calls[c]))]_vars

\* an update rejected by the limit check of an addition, one removal and one
\* addition applied: the links are neither those it read nor those it was given
C11_Witness ==
    \E c \in Callers :
       /\ calls[c].op = "updateStrategySegments" /\ Finished(c)
       /\ calls[c].result = "StrategyLimit"
       /\ \E i, j \in DOMAIN calls[c].members :
             /\ calls[c].members[i].kind = "remove" /\ calls[c].members[i].result = "ok"
             /\ calls[c].members[j].kind = "add" /\ calls[c].members[j].result = "ok"
             /\ <<calls[c].members[i].id, calls[c].sid>> \notin links
             /\ <<calls[c].members[j].id, calls[c].sid>> \in links
       /\ getByStrategy(calls[c].sid) # calls[c].current
       /\ getByStrategy(calls[c].sid) # Range(calls[c].ids)

SameName == {p \in (DOMAIN segments) \X (DOMAIN segments) :
                p[1] < p[2] /\ segments[p[1]].name = segments[p[2]].name}

\* C12: nothing between the uniqueness check and the write looks at the names
\* again: a create that has passed existsByName inserts its segment under its
\* name, and a renaming update that has passed it stores its name, whatever
\* another call has stored in between; with two calls at a time a state with
\* two existing segments of one name is therefore reached.
C12_CheckedNameIsStored ==
    [][\A c \in Callers :
          (calls[c].pc = "persist" /\ calls'[c] # calls[c])
          => /\ calls[c].op = "create"
                => /\ calls'[c].pc = "event"
                   /\ DOMAIN segments' = DOMAIN segments \cup {calls'[c].id}
                   /\ segments'[calls'[c].id].name = calls[c].input.name
             /\ (calls[c].op = "update" /\ calls[c].id \in DOMAIN segments)
                => /\ calls'[c].pc = "event"
                   /\ segments'[calls[c].id].name = calls[c].input.name]_vars

\* two creates of one name, each started when no segment had the name, have
\* both succeeded and both segments exist
C12_Witness ==
    \E c, d \in Callers :
       /\ c # d
       /\ \A e \in {c, d} :
             /\ calls[e].op = "create" /\ Finished(e) /\ calls[e].result = "ok"
             /\ NamedLike(calls[e].pre.segments, calls[e].input.name, {}) = {}
       /\ calls[c].input.name = calls[d].input.name
       /\ <<calls[c].id, calls[d].id>> \in SameName

\* C13: the limit check of an addition and its write are two steps with
\* nothing in between that looks at the links again: an addition that has
\* passed its check writes its link whatever the strategy holds by then.  With
\* two updateStrategySegments of one strategy at a time, each with a list within
\* the limit and both having read the same links, a state where the strategy
\* holds more than strategySegmentsLimit links, equal to neither list, is reached.
C13_PassedCheckWrites ==
    [][\A c \in Callers : \A i \in MemberIndex :
          (/\ i \in DOMAIN calls[c].members /\ i \in DOMAIN calls'[c].members
           /\ calls[c].members[i].pc = "link" /\ calls'[c].members[i].pc = "done"
           /\ calls[c].members[i].id \in DOMAIN segments)
          => /\ calls'[c].members[i].result = "ok"
             /\ <<calls[c].members[i].id, calls[c].sid>> \in links']_vars

\* two updates of one strategy that read the same links have both completed;
\* the strategy is over the limit and holds neither desired list
C13_Witness ==
    \E c, d \in Callers :
       /\ c # d
       /\ \A e \in {c, d} :
             /\ calls[e].op = "updateStrategySegments" /\ Finished(e)
             /\ calls[e].result = "ok"
             /\ Len(calls[e].ids) <= strategySegmentsLimit
             /\ getByStrategy(calls[e].sid) # Range(calls[e].ids)
       /\ calls[c].sid = calls[d].sid
       /\ calls[c].current = calls[d].current
       /\ Cardinality(getByStrategy(calls[c].sid)) > strategySegmentsLimit

AddedOk(call) ==
    {call.members[i].id :
        i \in {n \in DOMAIN call.members :
                  call.members[n].kind = "add" /\ call.members[n].result = "ok"}}

WouldExceed(call) ==
    Cardinality(LinkedTo(call.pre.links, call.sid) \cup call.current)
        > strategySegmentsLimit

\* C15: a cloneStrategySegments leaves the links of the source as they were and
\* removes no link of the target; once it has succeeded the target is linked
\* to every segment the source was linked to at the call; when the source's
\* segments together with the target's exceed the limit it ends with an error,
\* the target holding its previous links and the additions that were applied.
C15_CloneAddsOrFails ==
    \A c \in Callers :
       calls[c].op = "cloneStrategySegments"
       => /\ getByStrategy(calls[c].src) = LinkedTo(calls[c].pre.links, calls[c].src)
          /\ LinkedTo(calls[c].pre.links, calls[c].sid) \subseteq getByStrategy(calls[c].sid)
          /\ (Finished(c) /\ calls[c].result = "ok")
             => calls[c].current \subseteq getByStrategy(calls[c].sid)
          /\ (Finished(c) /\ WouldExceed(calls[c]))
             => /\ calls[c].result # "ok"
                /\ getByStrategy(calls[c].sid)
                     = LinkedTo(calls[c].pre.links, calls[c].sid) \cup AddedOk(calls[c])

KeepsName(call) ==
    /\ call.op = "update"
    /\ call.id \in DOMAIN call.pre.segments
    /\ call.input.wellFormed
    /\ call.input.name = call.pre.segments[call.id].name

\* C16: an update whose name is the stored name of its segment never reaches
\* the existsByName read and never ends with the duplicate-name error; it
\* reads the store twice at most (the segment, its strategies) and succeeds
\* exactly when the values-limit and project-scope checks pass.
C16_UnchangedNameNotChecked ==
    \A c \in Callers :
       KeepsName(calls[c])
       => /\ calls[c].pc # "existsByName"
          /\ calls[c].result # "NameExists"
          /\ calls[c].reads <= 2
          /\ Finished(c)
             => (calls[c].result = "ok"
                   <=> /\ ValuesCount(calls[c].input) <= segmentValuesLimit
                       /\ ~OutOfScope(calls[c]))

\* an update under its own name succeeded while another segment exists
C16_Witness ==
    \E c \in Callers :
       /\ KeepsName(calls[c]) /\ Finished(c)
       /\ calls[c].result = "ok" /\ calls[c].reads = 2
       /\ calls[c].input.project # calls[c].preData.project
       /\ existsByName(calls[c].input.name)
       /\ Cardinality(DOMAIN segments) = 2

\* C17: an updateStrategySegments whose list is longer than
\* strategySegmentsLimit, repeated ids counted each time, is rejected at once:
\* it has read and written nothing, issued no removal or addition, and every
\* link is as it was at the call.
C17_LongListRejectedUpfront ==
    \A c \in Callers :
       (calls[c].op = "updateStrategySegments"
          /\ Len(calls[c].ids) > strategySegmentsLimit)
       => /\ calls[c].pc = "done" /\ calls[c].result = "StrategyLimit"
          /\ calls[c].reads = 0 /\ calls[c].writes = 0
          /\ calls[c].members = <<>>
          /\ links = calls[c].pre.links

\* a list over the limit only through a repeated id, on a strategy whose
\* links differ from the listed ids, was rejected
C17_Witness ==
    \E c \in Callers :
       /\ calls[c].op = "updateStrategySegments" /\ calls[c].pc = "done"
       /\ calls[c].result = "StrategyLimit"
       /\ Len(calls[c].ids) > strategySegmentsLimit
       /\ Cardinality(Range(calls[c].ids)) <= strategySegmentsLimit
       /\ getByStrategy(calls[c].sid) # {}
       /\ getByStrategy(calls[c].sid) \cap Range(calls[c].ids) = {}

MembersOf(call, kind) ==
    {i \in DOMAIN call.members : call.members[i].kind = kind}

\* C18: in an updateStrategySegments an addition exists only once every
\* removal of the call has resolved successfully: none is issued while a
\* removal is pending, and none at all after a removal has failed.
C18_RemovalsBeforeAdditions ==
    \A c \in Callers :
       (calls[c].op = "updateStrategySegments" /\ MembersOf(calls[c], "add") # {})
       => \A i \in MembersOf(calls[c], "remove") :
             calls[c].members[i].pc = "done" /\ calls[c].members[i].result = "ok"

\* one removal failed, another was applied after it or before, and the call
\* ended without any of the additions its list asked for
C18_Witness ==
    \E c \in Callers :
       /\ calls[c].op = "updateStrategySegments" /\ Finished(c)
       /\ calls[c].result = "StoreError"
       /\ ToAdd(calls[c]) # {}
       /\ MembersOf(calls[c], "add") = {}
       /\ \E i, j \in MembersOf(calls[c], "remove") :
             /\ calls[c].members[i].result = "StoreError"
             /\ calls[c].members[j].result = "ok"

EmptyOrTooMany(call) ==
    /\ call.op \in {"create", "update"}
    /\ call.input.wellFormed
    /\ call.input.name = "" \/ ValuesCount(call.input) > segmentValuesLimit

\* C19: a create or an update whose candidate has an empty name or too many
\* values is rejected for it without any store read or write having been issued.
C19_PureChecksBeforeStore ==
    \A c \in Callers :
       (EmptyOrTooMany(calls[c]) /\ calls[c].pc = "done")
       => /\ calls[c].result \in {"EmptyName", "ValuesLimit"}
          /\ calls[c].reads = 0 /\ calls[c].writes = 0

\* C19, amended: the values-limit check precedes every store call in create and
\* in update, and so does the empty-name check in create; in update the empty
\* name is looked at only after segmentStore.get: the update has then read the
\* store exactly once, written nothing, and ends with the not-found error when
\* the id does not exist and with the empty-name error otherwise.
C19_PureChecksOrder ==
    \A c \in Callers :
       (EmptyOrTooMany(calls[c]) /\ calls[c].pc = "done")
       => /\ calls[c].writes = 0
          /\ ValuesCount(calls[c].input) > segmentValuesLimit
             => calls[c].result = "ValuesLimit" /\ calls[c].reads = 0
          /\ (ValuesCount(calls[c].input) <= segmentValuesLimit /\ calls[c].op = "create")
             => calls[c].result = "EmptyName" /\ calls[c].reads = 0
          /\ (ValuesCount(calls[c].input) <= segmentValuesLimit /\ calls[c].op = "update")
             => /\ calls[c].reads = 1
                /\ calls[c].result
                     = IF calls[c].id \in DOMAIN calls[c].pre.segments
                       THEN "EmptyName" ELSE "NotFound"

\* an update of an existing segment to the empty name, rejected after its read
C19_Witness ==
    \E c \in Callers :
       /\ calls[c].op = "update" /\ calls[c].pc = "done"
       /\ calls[c].input.wellFormed /\ calls[c].input.name = ""
       /\ calls[c].id \in DOMAIN segments
       /\ calls[c].result = "EmptyName"
       /\ calls[c].reads = 1 /\ calls[c].writes = 0

\* a member of the call has been issued and has not resolved
Pending(c) ==
    \E i \in DOMAIN calls[c].members : calls[c].members[i].pc # "done"

\* the member has resolved, and what it applied shows in the links
Completed(c, i) ==
    /\ calls[c].members[i].pc = "done"
    /\ calls[c].members[i].result = "ok"
       => (<<calls[c].members[i].id, calls[c].sid>> \in links
             <=> calls[c].members[i].kind = "add")

AllCompleted(c) ==
    /\ calls[c].members # <<>>
    /\ \A i \in DOMAIN calls[c].members : Completed(c, i)

\* C20: under fair scheduling every member of a batch of updateStrategySegments
\* or cloneStrategySegments that has been issued resolves, with success or
\* error and with its link change applied, also when the batch has already
\* been rejected by the failure of another member; the call is settled with
\* the error of a failed member as soon as one has failed.
C20_MembersRunToCompletion ==
    /\ [](\A c \in Callers :
             Failed(calls[c]) # {}
             => /\ calls[c].pc = "done"
                /\ calls[c].result
                      \in {calls[c].members[i].result : i \in Failed(calls[c])})
    /\ \A c \in Callers : Pending(c) ~> AllCompleted(c)

\* a batch already rejected by one member while another has passed its limit
\* check and not yet written its link
C20_Witness ==
    \E c \in Callers :
       /\ calls[c].op \in {"updateStrategySegments", "cloneStrategySegments"}
       /\ calls[c].pc = "done" /\ calls[c].result # "ok"
       /\ \E i \in DOMAIN calls[c].members : calls[c].members[i].pc = "link"

====
